---- MODULE Spec2Model ----
(***************************************************************************)
(* Model of the Windows plugin loader, src/src/plugin/plugin_windows.go:   *)
(* open(), lookup(), the registry (plugins, pluginsMu) and the cgo helpers *)
(* realpath, pluginOpen and pluginLookup.                                  *)
(*                                                                         *)
(* A Go string is a sequence of tokens; a file or symbol name is spelled   *)
(* character by character, a literal of the source is one token.          *)
(***************************************************************************)
EXTENDS Integers, Sequences, FiniteSets, TLC

\* ------------------------------------------------------------------ bounds

\* Number of goroutines that call into the package.
NThreads == 2

\* Total number of top-level calls (open or lookup) made by the goroutines.
MaxCalls == 3

Threads == 1..NThreads

\* ------------------------------------------------------------ environment

\* Names the callers pass to open().
NameA == <<"a", ".", "s", "o">>
NameB == <<"b">>
NameX == <<"x">>
Names == {NameA, NameB, NameX}

\* Canonical paths of the two library files that exist.
PathA == "C:\\a.so"
PathB == "C:\\b"
Paths == {PathA, PathB}

\* What GetFullPathNameA, GetLastError and stat answer for a name:
\* size is "zero", "fits" or "toolong" (relative to PATH_MAX).
OSPath(name) ==
  CASE name = NameA -> [size |-> "fits", full |-> PathA, lastError |-> "NONE", stat |-> "OK"]
    [] name = NameB -> [size |-> "fits", full |-> PathB, lastError |-> "NONE", stat |-> "OK"]
    [] OTHER        -> [size |-> "zero", full |-> "", lastError |-> "ERROR_FILE_NOT_FOUND", stat |-> "OK"]

\* All the answers the OS can give for a name: a name that does not resolve
\* fails with file-not-found or, behind a protected directory, access-denied.
OSAnswers(name) ==
  IF OSPath(name).size = "zero"
    THEN {OSPath(name), [OSPath(name) EXCEPT !.lastError = "ERROR_ACCESS_DENIED"]}
    ELSE {OSPath(name)}

\* Symbol names used by the module images.
SymF == <<"F">>
SymD == <<"D">>
KeyF == <<".">> \o SymF
KeyD == SymD
DotInit == <<".", "i", "n", "i", "t">>
ModId == <<"m">>

\* A module image as the linker and the runtime see it:
\*   errstr   what lastmoduleinit reports ("" is the empty sequence)
\*   exports  the declared export table (keys of syms; a leading "." marks a func)
\*   native   the names GetProcAddress resolves, in address order
\*   opens    the names the initializer passes to open(), if there is one
ImgPlain ==
  [pluginpath |-> ModId, errstr |-> <<>>, exports |-> {KeyF, KeyD},
   native |-> <<ModId \o <<".">> \o SymF, ModId \o <<".">> \o SymD>>, opens |-> <<>>]
ImgMissing ==
  [pluginpath |-> ModId, errstr |-> <<>>, exports |-> {KeyF, KeyD},
   native |-> <<ModId \o <<".">> \o SymF, ModId \o DotInit>>, opens |-> <<>>]
ImgBadMeta ==
  [pluginpath |-> ModId, errstr |-> <<"plugin was built with a different version of package runtime">>,
   exports |-> {}, native |-> <<>>, opens |-> <<>>]
ImgOpensA ==
  [pluginpath |-> ModId, errstr |-> <<>>, exports |-> {KeyD},
   native |-> <<ModId \o <<".">> \o SymD, ModId \o DotInit>>, opens |-> <<NameA>>]
ImgOpensB ==
  [pluginpath |-> ModId, errstr |-> <<>>, exports |-> {KeyD},
   native |-> <<ModId \o <<".">> \o SymD, ModId \o DotInit>>, opens |-> <<NameB>>]
Images == {ImgPlain, ImgMissing, ImgBadMeta, ImgOpensA, ImgOpensB}

\* ------------------------------------------------------------------ state

VARIABLES
  image,      \* path -> module image stored at that path (fixed by the environment)
  mu,         \* pluginsMu: 0 when free, else the goroutine that holds it
  plugins,    \* plugins: path -> index into recs, 0 when the key is absent
  recs,       \* the *Plugin values allocated so far, by identity (index)
  stack,      \* goroutine -> its active open() frames, innermost last
  calls,      \* top-level calls made so far
  rets,       \* every return of open(): return line, path, record (0 = nil), error
  loadCount,  \* path -> number of pluginOpen calls on it
  loadOk,     \* path -> number of pluginOpen calls that returned a handle
  initCount,  \* path -> number of times the module's init function was called
  symFailed,  \* loads that hit a missing export: the record and the names resolved before it
  lookupOut   \* the last lookup() call: its arguments and its result

vars == <<image, mu, plugins, recs, stack, calls, rets, loadCount, loadOk,
          initCount, symFailed, lookupOut>>

\* ------------------------------------------------------------ pure helpers

\* lastIndexByte and the slicing of open() work on character sequences.
HasSuffixSo(name) ==
  /\ Len(name) > 3
  /\ SubSeq(name, Len(name) - 2, Len(name)) = <<".", "s", "o">>

\* open, lines 235-237: strip a trailing ".so" from the name.
StripSo(name) == IF HasSuffixSo(name) THEN SubSeq(name, 1, Len(name) - 3) ELSE name

\* realpath (C), lines 22-143, called with a caller-supplied buffer, on the
\* answers r of GetFullPathNameA, GetLastError and stat.
realpathOn(r) ==
    IF r.size = "toolong" THEN [ok |-> FALSE, path |-> "", errno |-> "ENAMETOOLONG"]
    ELSE IF r.size = "zero" THEN
      [ok |-> FALSE, path |-> "",
       errno |-> CASE r.lastError = "ERROR_FILE_NOT_FOUND" -> "ENOENT"
                   [] r.lastError \in {"ERROR_PATH_NOT_FOUND", "ERROR_INVALID_DRIVE"} -> "ENOTDIR"
                   [] r.lastError = "ERROR_ACCESS_DENIED" -> "EACCES"
                   [] OTHER -> "EIO"]
    ELSE IF r.stat # "OK" THEN [ok |-> FALSE, path |-> "", errno |-> r.stat]
    ELSE [ok |-> TRUE, path |-> r.full, errno |-> "OK"]

\* realpath on a name for which the OS has one answer.
realpath(name) == realpathOn(OSPath(name))

\* The handle LoadLibrary gives for a path; 0 is NULL.
HandleOf(path) == IF path = PathA THEN 1 ELSE 2
PathOfHandle(h) == IF h = 1 THEN PathA ELSE PathB

\* pluginLookup (C), lines 177-184: GetProcAddress; 0 is NULL.
pluginLookup(img, h, cname) ==
  LET nat == img[PathOfHandle(h)].native
      hits == {i \in 1..Len(nat) : nat[i] = cname}
  IN IF hits = {} THEN 0 ELSE h * 10 + (CHOOSE i \in hits : TRUE)

\* What C.GoString(cErr) yields after pluginOpen or pluginLookup: both hand
\* the slot to print_error_message, which only prints; cErr stays nil.
GoStringCErr == <<>>

\* Error values of open().
ErrRealpath(name) == <<"plugin.Open(\"">> \o name \o <<"\"): realpath failed">>
ErrPrevious(name, err) ==
  <<"plugin.Open(\"">> \o name \o <<"\"): ">> \o err \o <<" (previous failure)">>
ErrLoad(name) == <<"plugin.Open(\"">> \o name \o <<"\"): ">> \o GoStringCErr \o <<" error">>
ErrModInit(name, errstr) == <<"plugin.Open(\"">> \o name \o <<"\"): ">> \o errstr
ErrNoSymbol(name, symName) ==
  <<"plugin.Open(\"">> \o name \o <<"\"): could not find symbol ">> \o symName
    \o <<": ">> \o GoStringCErr

\* lookup, line 308.
ErrLookup(symName, pluginpath) ==
  <<"plugin: symbol ">> \o symName \o <<" not found in plugin ">> \o pluginpath

\* updatedSyms[symName] = sym on a map kept as a set of entries.
MapPut_Lost(m, symName, sym) == {sym}
MapPut(m, symName, sym) == {e \in m : e.name # symName} \cup {sym}

\* lookup, lines 304-309.
lookup(p, symName) ==
  LET hit == {e \in p.syms : e.name = symName} IN
    IF hit # {} THEN [ok |-> TRUE, sym |-> CHOOSE e \in hit : TRUE, err |-> <<>>]
    ELSE [ok |-> FALSE, sym |-> [name |-> <<>>, callable |-> FALSE, addr |-> 0],
          err |-> ErrLookup(symName, p.pluginpath)]

\* ----------------------------------------------------------------- frames

Top(t) == stack[t][Len(stack[t])]
InOpen(t) == stack[t] # <<>>
At(t, pc) == InOpen(t) /\ Top(t).pc = pc

\* The frame of a call that passed realpath. Besides the locals of open() it
\* remembers which load failures of its path had been returned when it began.
NewFrame(name, path, failed) ==
  [pc |-> "lock", name |-> name, path |-> path, h |-> 0, p |-> 0, todo |-> {}, upd |-> {},
   after |-> failed]

\* The stack with its innermost frame replaced.
SetTop(t, f) == [stack EXCEPT ![t] = SubSeq(@, 1, Len(@) - 1) \o <<f>>]

\* The stack after the innermost open() returned: a frame below it is the
\* init function that made the call (line 268), which then returns.
Popped(s) ==
  LET below == SubSeq(s, 1, Len(s) - 1) IN
    IF below = <<>> THEN below
    ELSE SubSeq(below, 1, Len(below) - 1)
           \o <<[below[Len(below)] EXCEPT !.pc = "syms"]>>

\* A return of open(): the line of the return statement, the canonical path,
\* the *Plugin (0 = nil) and the error (empty = nil).
Ret(site, path, p, err) ==
  [site |-> site, path |-> path, p |-> p, err |-> err, errno |-> "OK"]

\* The return of line 212, with the errno realpath had set (open drops it).
RetRealpath(name, errno) ==
  [site |-> 212, path |-> "", p |-> 0, err |-> ErrRealpath(name), errno |-> errno]

\* Entering open(name), lines 205-216: either realpath fails and open returns
\* at once, or a frame is pushed that is about to take the lock.
Enter(s, name, r) ==
    IF r.ok
      THEN s \o <<NewFrame(name, r.path,
                           {x.site : x \in {y \in rets : y.path = r.path}} \cap {231, 249, 286})>>
      ELSE s

\* ------------------------------------------------------------------- Init

Init ==
  /\ image \in [Paths -> Images]
  /\ mu = 0
  /\ plugins = [q \in Paths |-> 0]
  /\ recs = <<>>
  /\ stack = [t \in Threads |-> <<>>]
  /\ calls = 0
  /\ rets = {}
  /\ loadCount = [q \in Paths |-> 0]
  /\ loadOk = [q \in Paths |-> 0]
  /\ initCount = [q \in Paths |-> 0]
  /\ symFailed = {}
  /\ lookupOut = [p |-> 0, name |-> <<>>, ok |-> FALSE, sym |-> [name |-> <<>>, callable |-> FALSE, addr |-> 0], err |-> <<>>]


\* ---------------------------------------------------------------- actions

\* open returns from its innermost frame.
Return(t, site, path, p, err) ==
  /\ stack' = [stack EXCEPT ![t] = Popped(@)]
  /\ rets' = rets \cup {Ret(site, path, p, err)}

\* pluginsMu.Lock(), line 217: the mutex can be taken.
LockFree_Always(m) == TRUE
LockFree(m) == m = 0

\* open, line 218: the registry has a record for the path.
CacheHit_Never(plugs, path) == FALSE
CacheHit(plugs, path) == plugs[path] # 0

\* open, line 223: the receive from p.loaded can proceed (channel closed).
Released_Always(p) == TRUE
Released(p) == p.loaded = "closed"

\* open, line 258 (and 248): the lock's holder after the record was inserted.
MuAfterInsert_Held(t) == t
MuAfterInsert(t) == 0

\* open, lines 272-297: what p.syms holds while the loop fills updatedSyms.
SymsDuringLoop_Direct(old, upd) == upd
SymsDuringLoop(old, upd) == old

\* open, lines 274-278: the name an export is published under; the key of a
\* func carries a leading "." that is cut off.
SymNameOf(key) == IF key[1] = "." THEN SubSeq(key, 2, Len(key)) ELSE key

\* A goroutine calls open(name): lines 205-216.
Open(t, name) ==
  /\ ~InOpen(t)
  /\ calls < MaxCalls
  /\ calls' = calls + 1
  /\ \E a \in OSAnswers(name) :
       /\ stack' = [stack EXCEPT ![t] = Enter(@, name, realpathOn(a))]
       /\ rets' = IF realpathOn(a).ok THEN rets
                  ELSE rets \cup {RetRealpath(name, realpathOn(a).errno)}
  /\ UNCHANGED <<image, mu, plugins, recs, loadCount, loadOk, initCount, symFailed, lookupOut>>

\* pluginsMu.Lock(), line 217.
Lock(t) ==
  /\ At(t, "lock")
  /\ LockFree(mu)
  /\ mu' = t
  /\ stack' = SetTop(t, [Top(t) EXCEPT !.pc = "lookup"])
  /\ UNCHANGED <<image, plugins, recs, calls, rets, loadCount, loadOk, initCount, symFailed, lookupOut>>

\* plugins[filepath], lines 218-219 and 225.
Lookup(t) ==
  /\ At(t, "lookup")
  /\ IF CacheHit(plugins, Top(t).path)
       THEN /\ mu' = 0
            /\ stack' = SetTop(t, [Top(t) EXCEPT !.pc = "hit", !.p = plugins[Top(t).path]])
       ELSE /\ mu' = mu
            /\ stack' = SetTop(t, [Top(t) EXCEPT !.pc = "pluginOpen"])
  /\ UNCHANGED <<image, plugins, recs, calls, rets, loadCount, loadOk, initCount, symFailed, lookupOut>>

\* The record was found: lines 220-222.
Hit(t) ==
  /\ At(t, "hit")
  /\ IF recs[Top(t).p].err # <<>>
       THEN Return(t, 221, Top(t).path, 0, ErrPrevious(Top(t).name, recs[Top(t).p].err))
       ELSE /\ stack' = SetTop(t, [Top(t) EXCEPT !.pc = "wait"])
            /\ rets' = rets
  /\ UNCHANGED <<image, mu, plugins, recs, calls, loadCount, loadOk, initCount, symFailed, lookupOut>>

\* <-p.loaded; return p, nil: lines 223-224.
Wait(t) ==
  /\ At(t, "wait")
  /\ Released(recs[Top(t).p])
  /\ Return(t, 224, Top(t).path, Top(t).p, <<>>)
  /\ UNCHANGED <<image, mu, plugins, recs, calls, loadCount, loadOk, initCount, symFailed, lookupOut>>

\* C.pluginOpen and the h == 0 branch: lines 226-232. LoadLibrary may
\* reject the image (h = 0) or map it.
PluginOpen(t) ==
  /\ At(t, "pluginOpen")
  /\ \E h \in {0, HandleOf(Top(t).path)} :
       /\ loadCount' = [loadCount EXCEPT ![Top(t).path] = @ + 1]
       /\ IF h = 0
            THEN /\ mu' = 0
                 /\ loadOk' = loadOk
                 /\ Return(t, 231, Top(t).path, 0, ErrLoad(Top(t).name))
            ELSE /\ mu' = mu
                 /\ loadOk' = [loadOk EXCEPT ![Top(t).path] = @ + 1]
                 /\ stack' = SetTop(t, [Top(t) EXCEPT !.pc = "modinit", !.h = h])
                 /\ rets' = rets
  /\ UNCHANGED <<image, plugins, recs, calls, initCount, symFailed, lookupOut>>

\* Lines 233-258: strip ".so", lastmoduleinit, insert the failed record or
\* the placeholder, unlock.
LastModuleInit(t) ==
  /\ At(t, "modinit")
  /\ LET f == Top(t)
         img == image[PathOfHandle(f.h)]
         name == StripSo(f.name)
         id == Len(recs) + 1
     IN IF img.errstr # <<>>
          THEN /\ recs' = Append(recs, [pluginpath |-> img.pluginpath, err |-> img.errstr,
                                        loaded |-> "nil", syms |-> {}])
               /\ plugins' = [plugins EXCEPT ![f.path] = id]
               /\ mu' = MuAfterInsert(t)
               /\ Return(t, 249, f.path, 0, ErrModInit(name, img.errstr))
          ELSE /\ recs' = Append(recs, [pluginpath |-> img.pluginpath, err |-> <<>>,
                                        loaded |-> "open", syms |-> {}])
               /\ plugins' = [plugins EXCEPT ![f.path] = id]
               /\ mu' = MuAfterInsert(t)
               /\ stack' = SetTop(t, [f EXCEPT !.pc = "findinit", !.name = name, !.p = id,
                                               !.todo = img.exports])
               /\ rets' = rets
  /\ UNCHANGED <<image, calls, loadCount, loadOk, initCount, symFailed, lookupOut>>

\* Lines 260-265: look the init function up.
FindInit(t) ==
  /\ At(t, "findinit")
  /\ LET f == Top(t)
         initFuncPC == pluginLookup(image, f.h, recs[f.p].pluginpath \o DotInit)
     IN stack' = SetTop(t, [f EXCEPT !.pc = IF initFuncPC # 0 THEN "init" ELSE "syms"])
  /\ UNCHANGED <<image, mu, plugins, recs, calls, rets, loadCount, loadOk, initCount, symFailed, lookupOut>>

\* Lines 266-269: initFunc() runs on the calling goroutine; it may call
\* open() itself, which is then the innermost frame of this goroutine.
InitFunc(t) ==
  /\ At(t, "init")
  /\ LET f == Top(t)
         img == image[PathOfHandle(f.h)]
     IN /\ initCount' = [initCount EXCEPT ![f.path] = @ + 1]
        /\ IF img.opens = <<>>
             THEN /\ stack' = SetTop(t, [f EXCEPT !.pc = "syms"])
                  /\ rets' = rets
             ELSE \E a \in OSAnswers(img.opens[1]) :
               IF realpathOn(a).ok
                 THEN /\ stack' = [stack EXCEPT ![t] =
                                     Enter(SubSeq(@, 1, Len(@) - 1) \o <<[f EXCEPT !.pc = "initwait"]>>,
                                           img.opens[1], realpathOn(a))]
                      /\ rets' = rets
                 ELSE /\ stack' = SetTop(t, [f EXCEPT !.pc = "syms"])
                      /\ rets' = rets \cup {RetRealpath(img.opens[1], realpathOn(a).errno)}
  /\ UNCHANGED <<image, mu, plugins, recs, calls, loadCount, loadOk, symFailed, lookupOut>>

\* One iteration of the range over syms, lines 273-297; the map is visited
\* in any order.
SymLoop(t) ==
  /\ At(t, "syms")
  /\ Top(t).todo # {}
  /\ \E key \in Top(t).todo :
       LET f == Top(t)
           isFunc == key[1] = "."
           symName == IF isFunc THEN SymNameOf(key) ELSE key
           fullName == recs[f.p].pluginpath \o <<".">> \o symName
           addr == pluginLookup(image, f.h, fullName)
           upd == MapPut(f.upd, symName, [name |-> symName, callable |-> isFunc, addr |-> addr])
       IN IF addr = 0
            THEN /\ symFailed' = symFailed \cup {[p |-> f.p, done |-> {e.name : e \in f.upd}]}
                 /\ recs' = recs
                 /\ Return(t, 286, f.path, 0, ErrNoSymbol(f.name, symName))
            ELSE /\ symFailed' = symFailed
                 /\ recs' = [recs EXCEPT ![f.p].syms = SymsDuringLoop(@, upd)]
                 /\ stack' = SetTop(t, [f EXCEPT !.todo = @ \ {key}, !.upd = upd])
                 /\ rets' = rets
  /\ UNCHANGED <<image, mu, plugins, calls, loadCount, loadOk, initCount, lookupOut>>

\* p.syms = updatedSyms, line 298.
Publish(t) ==
  /\ At(t, "syms")
  /\ Top(t).todo = {}
  /\ recs' = [recs EXCEPT ![Top(t).p].syms = Top(t).upd]
  /\ stack' = SetTop(t, [Top(t) EXCEPT !.pc = "close"])
  /\ UNCHANGED <<image, mu, plugins, calls, rets, loadCount, loadOk, initCount, symFailed, lookupOut>>

\* close(p.loaded); return p, nil: lines 300-301.
Close(t) ==
  /\ At(t, "close")
  /\ recs' = [recs EXCEPT ![Top(t).p].loaded = "closed"]
  /\ Return(t, 301, Top(t).path, Top(t).p, <<>>)
  /\ UNCHANGED <<image, mu, plugins, calls, loadCount, loadOk, initCount, symFailed, lookupOut>>

\* Names the callers ask lookup() for.
LookupNames == {SymF, SymD, KeyF}

\* A goroutine calls lookup(p, symName) on a handle some open() returned:
\* lines 304-309.
LookupCall(t, p, symName) ==
  /\ ~InOpen(t)
  /\ calls < MaxCalls
  /\ p \in {x.p : x \in rets} \ {0}
  /\ calls' = calls + 1
  /\ lookupOut' = [p |-> p, name |-> symName, ok |-> lookup(recs[p], symName).ok,
                   sym |-> lookup(recs[p], symName).sym,
                   err |-> lookup(recs[p], symName).err]
  /\ UNCHANGED <<image, mu, plugins, recs, stack, rets, loadCount, loadOk, initCount, symFailed>>

Next ==
  \/ \E t \in Threads, name \in Names : Open(t, name)
  \/ \E t \in Threads : Lock(t)
  \/ \E t \in Threads : Lookup(t)
  \/ \E t \in Threads : Hit(t)
  \/ \E t \in Threads : Wait(t)
  \/ \E t \in Threads : PluginOpen(t)
  \/ \E t \in Threads : LastModuleInit(t)
  \/ \E t \in Threads : FindInit(t)
  \/ \E t \in Threads : InitFunc(t)
  \/ \E t \in Threads : SymLoop(t)
  \/ \E t \in Threads : Publish(t)
  \/ \E t \in Threads : Close(t)
  \/ \E t \in Threads, p \in 1..Len(recs), symName \in LookupNames : LookupCall(t, p, symName)

Spec == Init /\ [][Next]_vars


\* ------------------------------------------------------------- properties

RecIds == 1..Len(recs)

\* Lifecycle state of a record as the spec names it.
RecState(p) ==
  IF p.err # <<>> THEN "Failed"
  ELSE IF p.loaded = "closed" THEN "Loaded"
  ELSE "Pending"

\* All frames of all goroutines, with their owner and depth.
AllFrames == {<<t, i>> : t \in Threads, i \in 1..(NThreads + MaxCalls + 2)}
Live == {ti \in AllFrames : ti[2] <= Len(stack[ti[1]])}
FrameAt(ti) == stack[ti[1]][ti[2]]

\* The positions of open() after the record was created, lines 260-300.
LoaderPcs == {"findinit", "init", "initwait", "syms", "close"}

\* The goroutine that created record r is still inside that open().
LoaderActive(r) == \E ti \in Live : FrameAt(ti).p = r /\ FrameAt(ti).pc \in LoaderPcs

\* The name a key of the export table is published under.
StripKey(key) == IF key[1] = "." THEN SubSeq(key, 2, Len(key)) ELSE key

\* s occurs in msg as a contiguous piece.
Contains(msg, s) ==
  \E i \in 0..Len(msg) : i + Len(s) <= Len(msg) /\ SubSeq(msg, i + 1, i + Len(s)) = s

\* C1 (as the claim states it): for every path the native load is invoked
\* exactly once whatever its outcome, and all calls on the path that return a
\* record return the same one.
C1_ExactlyOneLoad ==
  \A q \in Paths :
    /\ loadCount[q] <= 1
    /\ (\E x \in rets : x.path = q) => loadCount[q] = 1
    /\ \A x, y \in rets : (x.path = q /\ y.path = q /\ x.p # 0 /\ y.p # 0) => x.p = y.p

\* C1 (amended): pluginOpen returns a handle at most once per path and exactly
\* once for a path that has a record; a rejected load is not cached, so
\* pluginOpen may run again until it succeeds. Every call that returns a
\* record returns the one registered for its path, and every call that
\* returns the cached error of a record wraps that record's error text.
C1_OneSuccessfulLoad ==
  \A q \in Paths :
    /\ loadOk[q] <= 1
    /\ plugins[q] # 0 => loadOk[q] = 1
    /\ loadOk[q] = 0 => plugins[q] = 0
    /\ \A x \in rets : (x.path = q /\ x.p # 0) => x.p = plugins[q]
    /\ \A x \in rets : (x.path = q /\ x.site = 221) =>
         /\ plugins[q] # 0
         /\ recs[plugins[q]].err # <<>>
         /\ Contains(x.err, recs[plugins[q]].err)

\* Two goroutines are in open() on the same path at once: one is the loader of
\* the record, the other blocks on its completion signal, after a load of
\* that path had been rejected and retried.
C1_Witness ==
  \E t, u \in Threads :
    /\ t # u
    /\ At(t, "wait")
    /\ At(u, "close")
    /\ Top(u).p = Top(t).p
    /\ loadCount[Top(t).path] = 2
    /\ loadOk[Top(t).path] = 1


\* C2: every record open() has returned is Loaded: its initializer has
\* finished and its directory has exactly one entry per declared export.
C2_ReturnedIsLoaded ==
  \A x \in rets :
    x.p # 0 =>
      /\ RecState(recs[x.p]) = "Loaded"
      /\ ~LoaderActive(x.p)
      /\ {e.name : e \in recs[x.p].syms} = {StripKey(k) : k \in image[x.path].exports}
      /\ Cardinality(recs[x.p].syms) = Cardinality(image[x.path].exports)

\* A waiter released from the completion signal has returned a record whose
\* export table has two entries.
C2_Witness ==
  \E x \in rets :
    /\ x.site = 224
    /\ x.p # 0
    /\ Cardinality(image[x.path].exports) = 2
    /\ Cardinality(recs[x.p].syms) = 2

\* C3: a record whose loader has returned from open() is not Pending, and a
\* load that failed on a missing export has left its record Failed with the
\* error cached.
C3_PendingSettles ==
  /\ \A r \in RecIds : ~LoaderActive(r) => RecState(recs[r]) # "Pending"
  /\ \A x \in symFailed : RecState(recs[x.p]) = "Failed"

\* C4: a caller blocked on the completion signal of a record can still be
\* released: the signal is closed or the loader of the record is still at
\* work and will settle it.
C4_WaiterReleased ==
  \A t \in Threads :
    At(t, "wait") => (Released(recs[Top(t).p]) \/ LoaderActive(Top(t).p))

\* The load-sequence failures that leave a record behind: lines 249 and 286.
CachedFailureSites == {249, 286}

\* C5: a call of open() that begins after a load of its path has failed (on
\* the metadata init error or on a missing export) never reaches the native
\* load or the initializer and never blocks: it finds the record and its
\* cached error. (The rejected native load, line 231, is left out here: the
\* code keeps no record of it.)
C5_FailureCached ==
  \A ti \in Live :
    LET f == FrameAt(ti) IN
      f.after \cap CachedFailureSites # {} =>
        /\ f.pc \in {"lock", "lookup", "hit"}
        /\ f.pc = "hit" => recs[f.p].err # <<>>

\* C6: no goroutine holds pluginsMu while it is in the native load, the
\* metadata init or the initializer; the lock surrounds only the map lookup
\* and the insert of the record. The code keeps the lock from line 217 to
\* the Unlock at 230, 248 or 258, across C.pluginOpen (227) and
\* lastmoduleinit (241), so the property is violated.
C6_LockOnlyAroundMap ==
  \A t \in Threads :
    mu = t => ~(\E i \in 1..Len(stack[t]) :
                  stack[t][i].pc \in {"pluginOpen", "modinit", "init", "initwait"})

\* The positions of open() between Lock (217) and the Unlock of the miss
\* path (230, 248, 258).
LockedPcs == {"lookup", "pluginOpen", "modinit"}

\* Names lookup() is tried with: those of the callers and every export name.
ProbeNames == LookupNames \cup {StripKey(k) : k \in UNION {i.exports : i \in Images}}

\* C7: after export resolution failed partway, the directory of that record
\* is empty and lookup() on it fails for every name, the exports resolved
\* before the failing one included.
C7_NoPartialPublication ==
  \A x \in symFailed :
    /\ recs[x.p].syms = {}
    /\ recs[x.p].loaded # "closed"
    /\ \A n \in ProbeNames \cup x.done : ~lookup(recs[x.p], n).ok

\* A load failed on a missing export after another export had been resolved.
C7_Witness == \E x \in symFailed : x.done # {}

\* C8: an open() that finds the record Pending never blocks on the
\* completion signal of a record its own goroutine is loading.
C8_NoSelfWait ==
  \A t \in Threads :
    At(t, "wait") =>
      ~(\E i \in 1..(Len(stack[t]) - 1) :
          stack[t][i].p = Top(t).p /\ stack[t][i].pc \in LoaderPcs)

\* C9: while the record of a path is Loaded, no step invokes the native load
\* or the initializer of that path, changes its directory or the record the
\* path maps to, and every open() that returns for the path returns it.
C9_IdempotentReopen ==
  [][\A q \in Paths :
       (plugins[q] # 0 /\ RecState(recs[plugins[q]]) = "Loaded") =>
         /\ loadCount'[q] = loadCount[q]
         /\ initCount'[q] = initCount[q]
         /\ plugins'[q] = plugins[q]
         /\ recs'[plugins[q]] = recs[plugins[q]]
         /\ \A y \in rets' \ rets : y.path = q => (y.p = plugins[q] /\ y.err = <<>>)]_vars

\* A module with an initializer was loaded once and a later open() of its
\* path returned the same record from the cache.
C9_Witness ==
  \E q \in Paths :
    /\ initCount[q] = 1
    /\ loadCount[q] = 1
    /\ \E x, y \in rets :
         /\ x.site = 301 /\ y.site = 224
         /\ x.p = plugins[q] /\ y.p = plugins[q]
         /\ recs[x.p].syms # {}

\* C10: a record once inserted stays the record of its path, its error text
\* never changes, Loaded and Failed records never change at all, and the
\* directory is written only by the loader at its publish step and only once.
C10_WriteOnce ==
  [][/\ Len(recs') >= Len(recs)
     /\ \A q \in Paths : plugins[q] # 0 => plugins'[q] = plugins[q]
     /\ \A r \in RecIds :
          /\ recs'[r].err = recs[r].err
          /\ recs'[r].pluginpath = recs[r].pluginpath
          /\ RecState(recs[r]) \in {"Loaded", "Failed"} => recs'[r] = recs[r]
          /\ recs[r].syms # {} => recs'[r].syms = recs[r].syms
          /\ recs'[r] # recs[r] =>
               \E t \in Threads : InOpen(t) /\ Top(t).p = r /\ Top(t).pc \in {"syms", "close"}]_vars

\* A Loaded record and a Failed record exist, and open() has been called again
\* on both paths after they settled.
C10_Witness ==
  /\ \E x \in rets : x.site = 224 /\ RecState(recs[x.p]) = "Loaded"
  /\ \E y \in rets : y.site = 221


\* ------------------------------------------------------------- scheduling

\* The steps goroutine t takes inside open() once it was called. The Go
\* scheduler runs every runnable goroutine, and sync.Mutex hands the lock to
\* a goroutine that keeps asking for it (starvation mode).
Step(t) ==
  \/ Lookup(t) \/ Hit(t) \/ Wait(t) \/ PluginOpen(t) \/ LastModuleInit(t)
  \/ FindInit(t) \/ InitFunc(t) \/ SymLoop(t) \/ Publish(t) \/ Close(t)

\* The module at path q loads to the end on its own: its metadata is sound,
\* every declared export resolves and its initializer opens nothing.
LoadsAlone(q) ==
  /\ image[q].errstr = <<>>
  /\ image[q].opens = <<>>
  /\ \A k \in image[q].exports :
       pluginLookup(image, HandleOf(q), image[q].pluginpath \o <<".">> \o StripKey(k)) # 0

\* The configurations in which an initializer opens a different path that
\* can become Loaded before it: one module opens the other, which loads alone.
NestedInit ==
  /\ Init
  /\ \E q \in Paths :
       /\ image[q].opens # <<>>
       /\ realpath(image[q].opens[1]).ok
       /\ realpath(image[q].opens[1]).path # q
       /\ LoadsAlone(realpath(image[q].opens[1]).path)

FairSpec ==
  /\ NestedInit /\ [][Next]_vars
  /\ \A t \in Threads : WF_vars(Step(t)) /\ SF_vars(Lock(t))

\* Goroutine t is inside an initializer's open() of a path other than the one
\* being initialized, the record of that other path is Loaded, and r is the
\* record the outer open() is loading.
InnerOnLoaded(t, r) ==
  /\ Len(stack[t]) >= 2
  /\ stack[t][Len(stack[t]) - 1].pc = "initwait"
  /\ stack[t][Len(stack[t]) - 1].p = r
  /\ Top(t).path # stack[t][Len(stack[t]) - 1].path
  /\ plugins[Top(t).path] # 0
  /\ RecState(recs[plugins[Top(t).path]]) = "Loaded"

\* Every path whose initializer calls open() has a Loaded record. (Under
\* NestedInit one path has such an initializer: the outer open() is on it.)
OpenersLoaded ==
  \A q \in Paths :
    image[q].opens # <<>> => (plugins[q] # 0 /\ RecState(recs[plugins[q]]) = "Loaded")

\* C11: an open() made by an initializer on a different path that is already
\* Loaded never reaches the native load and is never blocked on the
\* completion signal, and the outer open() goes on to make its own record
\* Loaded, under every interleaving with the other goroutines.
C11_InnerOpenOfLoaded ==
  /\ [](\A t \in Threads, r \in RecIds :
          InnerOnLoaded(t, r) =>
            /\ Top(t).pc \in {"lock", "lookup", "hit", "wait"}
            /\ Top(t).pc \in {"hit", "wait"} => Top(t).p = plugins[Top(t).path]
            /\ Top(t).pc = "wait" => Released(recs[Top(t).p]))
  /\ (\E t \in Threads, r \in RecIds : InnerOnLoaded(t, r)) ~> OpenersLoaded

\* An initializer's open() of the other, Loaded path has returned its record
\* and the outer open() has finished: both paths are Loaded.
C11_Witness ==
  \E q \in Paths :
    /\ image[q].opens # <<>>
    /\ realpath(image[q].opens[1]).path # q
    /\ initCount[q] = 1
    /\ loadCount[realpath(image[q].opens[1]).path] = 1
    /\ plugins[q] # 0
    /\ RecState(recs[plugins[q]]) = "Loaded"
    /\ \E x \in rets : x.site = 224 /\ x.path = realpath(image[q].opens[1]).path
    /\ \E y \in rets : y.site = 301 /\ y.path = q
    /\ calls = 2


\* The module at path q exports an init function (lines 260-265).
HasInit(q) == pluginLookup(image, HandleOf(q), image[q].pluginpath \o DotInit) # 0

\* C12: the initializer of a path is called at most once; when it is looked
\* up, called or running, the placeholder of its path is in the registry, is
\* still Pending and no export has been resolved or published; and exports
\* of a module that has an initializer are resolved only after it was called.
C12_InitOnceBeforeExports ==
  /\ \A q \in Paths :
       /\ initCount[q] <= 1
       /\ initCount[q] = 1 => (plugins[q] # 0 /\ HasInit(q))
       /\ (plugins[q] # 0 /\ recs[plugins[q]].syms # {} /\ HasInit(q)) => initCount[q] = 1
  /\ \A ti \in Live :
       LET f == FrameAt(ti) IN
         /\ f.pc \in {"findinit", "init", "initwait"} =>
              /\ f.p # 0
              /\ plugins[f.path] = f.p
              /\ RecState(recs[f.p]) = "Pending"
              /\ f.upd = {}
              /\ recs[f.p].syms = {}
         /\ f.pc \in {"findinit", "init"} => initCount[f.path] = 0
         /\ (f.pc \in {"syms", "close"} /\ HasInit(f.path)) => initCount[f.path] = 1

\* A module with an initializer is Loaded with its exports published, its
\* initializer ran once, and its path was opened again afterwards.
C12_Witness ==
  \E q \in Paths :
    /\ HasInit(q)
    /\ initCount[q] = 1
    /\ plugins[q] # 0
    /\ recs[plugins[q]].syms # {}
    /\ \E x \in rets : x.site = 224 /\ x.path = q


\* GetLastError() after LoadLibrary rejected the image at a path.
LoadErrorOf(path) == IF path = PathA THEN "ERROR_ACCESS_DENIED" ELSE "ERROR_MOD_NOT_FOUND"

\* FormatMessage(FORMAT_MESSAGE_FROM_SYSTEM, err), lines 159-166: rv is the
\* length of the message stored in msg_buf, 0 when the system has no message
\* for the code.
FormatMessage(code) ==
  IF code = "ERROR_ACCESS_DENIED"
    THEN [rv |-> 1, msg_buf |-> <<"Access is denied.">>]
  ELSE IF code = "ERROR_MOD_NOT_FOUND"
    THEN [rv |-> 1, msg_buf |-> <<"The specified module could not be found.">>]
  ELSE [rv |-> 0, msg_buf |-> <<>>]

\* print_error_message, lines 154-175: the line it writes to stderr, with
\* the system message when FormatMessage found one (168-171) and the fixed
\* text otherwise (172-174). It writes nowhere else; pluginOpen (149) passes
\* it the slot err and never assigns *err (the sprintf of line 148 is
\* commented out).
print_error_message(msg, code) ==
  IF FormatMessage(code).rv > 0
    THEN msg \o <<": dwMessageID=", code, ": ">> \o FormatMessage(code).msg_buf
    ELSE msg \o <<": dwMessageID=", code, ": unknown dwMessageID...">>

\* C13: the error of an open() whose native load was rejected carries the
\* platform message of that failure.
C13_LoadErrorHasPlatformMessage ==
  \A x \in rets :
    x.site = 231 => Contains(x.err, FormatMessage(LoadErrorOf(x.path)).msg_buf)


\* What the export table of the module at path q declares under name n.
Declared(q, n) == {k \in image[q].exports : StripKey(k) = n}

\* C14: on every record open() has returned, lookup() succeeds exactly for
\* the declared export names (a func under its name without the "."), with
\* the kind of the declaration and the address resolved during open(); for
\* any other name its error names the symbol and the plugin path. The result
\* a caller got is that of lookup() on the record, and a lookup() call
\* changes nothing of the registry, the records or the goroutines.
C14_LookupExactlyExports ==
  /\ [](\A x \in rets : \A n \in ProbeNames :
          x.p # 0 =>
            LET out == lookup(recs[x.p], n) IN
              /\ out.ok <=> Declared(x.path, n) # {}
              /\ out.ok =>
                   /\ out.sym.callable = (\E k \in Declared(x.path, n) : k[1] = ".")
                   /\ out.sym.addr # 0
                   /\ out.sym.addr = pluginLookup(image, HandleOf(x.path),
                                                  recs[x.p].pluginpath \o <<".">> \o n)
              /\ ~out.ok =>
                   /\ Contains(out.err, n)
                   /\ Contains(out.err, recs[x.p].pluginpath))
  /\ [](lookupOut.p # 0 =>
          /\ lookupOut.ok = lookup(recs[lookupOut.p], lookupOut.name).ok
          /\ lookupOut.sym = lookup(recs[lookupOut.p], lookupOut.name).sym
          /\ lookupOut.err = lookup(recs[lookupOut.p], lookupOut.name).err)
  /\ [][lookupOut' # lookupOut =>
          UNCHANGED <<image, mu, plugins, recs, stack, rets, loadCount, loadOk,
                      initCount, symFailed>>]_vars

\* A caller looked up the func F, declared as ".F", and got a callable
\* handle; the module also declares data.
C14_Witness ==
  /\ lookupOut.p # 0
  /\ lookupOut.name = SymF
  /\ lookupOut.ok
  /\ lookupOut.sym.callable
  /\ \E e \in recs[lookupOut.p].syms : ~e.callable


\* The class of the spec's taxonomy an errno of realpath falls into.
ErrnoClass(errno) ==
  CASE errno = "ENOENT" -> "not-found"
    [] errno = "ENOTDIR" -> "not-a-directory"
    [] errno = "EACCES" -> "access-denied"
    [] OTHER -> "other-io"

\* C15: two canonicalization failures whose OS errors fall into different
\* classes make open() return different errors.
C15_ResolutionErrorHasClass ==
  \A x, y \in rets :
    (x.site = 212 /\ y.site = 212 /\ ErrnoClass(x.errno) # ErrnoClass(y.errno))
      => x.err # y.err


\* C16: a goroutine that reads the map (line 218) or is about to write it
\* (lines 244, 257) holds pluginsMu, and the map changes only in a step of
\* the holder; at most one goroutine is between Lock and Unlock; a goroutine
\* that is outside open() or blocked on a completion signal does not hold
\* the lock, and whenever an open() returns, its goroutine has released it.
C16_MapUnderLock ==
  /\ [](\A t \in Threads : (At(t, "lookup") \/ At(t, "modinit")) => mu = t)
  /\ [](\A t \in Threads : (~InOpen(t) \/ At(t, "wait")) => mu # t)
  /\ [](Cardinality({t \in Threads : InOpen(t) /\ Top(t).pc \in LockedPcs}) <= 1)
  /\ [][plugins' # plugins => \E t \in Threads : mu = t /\ At(t, "modinit")]_vars
  /\ [][\A t \in Threads : Len(stack'[t]) < Len(stack[t]) => mu' # t]_vars

\* open() has returned on the native load failure and on the metadata init
\* failure, and now one goroutine holds the lock while another is outside
\* open().
C16_Witness ==
  /\ \E x \in rets : x.site = 231
  /\ \E y \in rets : y.site = 249
  /\ \E t, u \in Threads : ~InOpen(t) /\ mu = u /\ At(u, "lookup")


\* The positions of open() before a record is created: lines 217-232.
EarlyPcs == {"lock", "lookup", "pluginOpen"}

\* C17: an open() whose realpath fails, and every step of an open() up to
\* the rejected native load, leave the map, the records and the initializer
\* counts as they were; the path of a rejected load has no record while the
\* load runs and none when open() returns.
C17_EarlyFailureNoEffect ==
  /\ [](\A t \in Threads : At(t, "pluginOpen") => plugins[Top(t).path] = 0)
  /\ [][\A t \in Threads :
          (InOpen(t) /\ Top(t).pc \in EarlyPcs /\ stack'[t] # stack[t]) =>
            /\ plugins' = plugins /\ recs' = recs /\ initCount' = initCount
            /\ (Top(t).pc = "pluginOpen" /\ loadOk' = loadOk) =>
                 /\ plugins'[Top(t).path] = 0
                 /\ Ret(231, Top(t).path, 0, ErrLoad(Top(t).name)) \in rets']_vars
  /\ [][(\E x \in rets' \ rets : x.site = 212) =>
          (plugins' = plugins /\ recs' = recs /\ initCount' = initCount /\ stack' = stack)]_vars

\* A native load of one path was rejected and a realpath failed while the
\* other path has a record: the rejected path is still absent.
C17_Witness ==
  \E q \in Paths :
    /\ \E x \in rets : x.site = 231 /\ x.path = q
    /\ \E y \in rets : y.site = 212
    /\ plugins[q] = 0
    /\ \E o \in Paths : plugins[o] # 0


\* The initializer of each module opens the path of the other.
MutualInits == image[PathA].opens = <<NameB>> /\ image[PathB].opens = <<NameA>>

\* Goroutine t is blocked at line 223 on a record that goroutine u is loading.
BlockedOn(t, u) ==
  /\ At(t, "wait")
  /\ ~Released(recs[Top(t).p])
  /\ \E i \in 1..Len(stack[u]) :
       stack[u][i].p = Top(t).p /\ stack[u][i].pc \in LoaderPcs

\* C18: with mutually dependent initializers no state is reached in which
\* the loaders (in the same or in two goroutines) each wait on a completion
\* signal that only the other can close.
C18_MutualInitsTerminate ==
  MutualInits => \A t, u \in Threads : ~(BlockedOn(t, u) /\ BlockedOn(u, t))

====
